---- MODULE Spec2Model ----
(***************************************************************************)
(* Model of tool_slide_bridge.marp_converter.ClaudeToMarpConverter.        *)
(*                                                                         *)
(* Text is a sequence of tokens.  A token is either one character that the *)
(* converter's patterns look at (newline, space, "-", "#", "<", ">", ".",  *)
(* "/", ":", the backtick) or a word: a run of characters none of which    *)
(* any pattern of the converter distinguishes ("a", "marp:", "true", ...). *)
(* The only words a pattern looks into are "hr"/"HR" (the tag name of the  *)
(* <hr[^>]*/?> pattern) and "marp:" (the startswith("marp:") test).        *)
(***************************************************************************)
EXTENDS Integers, Sequences, FiniteSets

VARIABLES
    pc,            \* position inside the method under execution
    theme_dir,     \* names t such that <theme_dir>/t.css exists
    content,       \* the `content` argument of the method under execution
    config,        \* the MarpConfig in use
    marp_content,  \* local `marp_content` of process_claude_content / return value
    filename,      \* the `filename` argument of _sanitize_filename
    sanitized,     \* results of the successive _sanitize_filename calls
    output_format, \* the `output_format` argument of generate_presentation
    md_file,       \* local `md_file` of generate_presentation, None while unset
    fs,            \* the files of the output directory: path -> text
    runs,          \* the subprocess.run calls of the entry point under execution
    exc,           \* the exception raised inside the try block, if any
    result,        \* the ConversionResult returned
    check_marp,    \* the --check-marp flag of the command line
    list_themes,   \* the --list-themes flag of the command line
    marp,          \* what running `marp --version` does on this machine
    input_readable,\* whether the input file of the command line can be read
    installed,     \* what check_marp_installation returned, "unknown" before
    exit_code,     \* exit status of the command line, once pc = "exited"
    calls          \* generate_presentation calls the converter has completed

\* what only generate_presentation touches
genVars == <<output_format, md_file, fs, runs, exc, result>>

\* what only the callers of generate_presentation touch
outerVars ==
    <<check_marp, list_themes, marp, input_readable, installed, exit_code, calls>>

vars == <<pc, theme_dir, content, config, marp_content, filename, sanitized,
          output_format, md_file, fs, runs, exc, result,
          check_marp, list_themes, marp, input_readable, installed, exit_code,
          calls>>

\* Python's None, where a text is optional: a value that is no text of the model
None == <<"None">>

\* no exception raised
NoExc == [type |-> "none", msg |-> <<>>, stderr |-> <<>>, stdout |-> <<>>]

\* ConversionResult's field defaults (lines 33-39), before anything is returned
NoResult ==
    [success |-> FALSE, output_path |-> None, error_message |-> None,
     markdown_path |-> None]

\* generate_presentation not called
GenIdle ==
    /\ output_format = <<"pptx">>
    /\ md_file = None
    /\ fs = <<>>
    /\ runs = <<>>
    /\ exc = NoExc
    /\ result = NoResult

\* no command line running, no call of generate_presentation counted
OuterIdle ==
    /\ check_marp = FALSE
    /\ list_themes = FALSE
    /\ marp = "installed"
    /\ input_readable = TRUE
    /\ installed = "unknown"
    /\ exit_code = 0
    /\ calls = 0

NL == "\n"

(***************************************************************************)
(* Python string primitives on token sequences.                            *)
(***************************************************************************)

\* str.isspace for one character: what str.strip() removes and what \s matches
\* (of Python's whitespace the texts of this model hold these three)
IsSpace(c) == c \in {" ", "\n", "\t"}

\* s[i:i+len(pat)] == pat   (i is 1-based)
MatchAt(s, i, pat) ==
    /\ i >= 1
    /\ i + Len(pat) - 1 <= Len(s)
    /\ \A k \in 1..Len(pat) : s[i + k - 1] = pat[k]

\* pat in s
Contains(s, pat) == \E i \in 1..Len(s) : MatchAt(s, i, pat)

\* s.startswith(pat)
StartsWith(s, pat) == MatchAt(s, 1, pat)

\* s.replace(pat, rep) and re.sub of a literal pattern: leftmost matches,
\* not overlapping, the scan resuming after each match
RECURSIVE ReplaceFrom(_, _, _, _)
ReplaceFrom(s, i, pat, rep) ==
    IF i > Len(s) THEN <<>>
    ELSE IF MatchAt(s, i, pat) THEN rep \o ReplaceFrom(s, i + Len(pat), pat, rep)
    ELSE <<s[i]>> \o ReplaceFrom(s, i + 1, pat, rep)

Replace(s, pat, rep) == ReplaceFrom(s, 1, pat, rep)

\* s.split(sep): always at least one piece
RECURSIVE SplitFrom(_, _, _, _)
SplitFrom(s, i, sep, cur) ==
    IF i > Len(s) THEN <<cur>>
    ELSE IF MatchAt(s, i, sep) THEN <<cur>> \o SplitFrom(s, i + Len(sep), sep, <<>>)
    ELSE SplitFrom(s, i + 1, sep, Append(cur, s[i]))

Split(s, sep) == SplitFrom(s, 1, sep, <<>>)

\* sep.join(parts)
RECURSIVE Join(_, _)
Join(parts, sep) ==
    IF Len(parts) = 0 THEN <<>>
    ELSE IF Len(parts) = 1 THEN parts[1]
    ELSE parts[1] \o sep \o Join(Tail(parts), sep)

\* s.strip(chars): drop leading and trailing characters that are in `chars`
StripChars(s, chars) ==
    LET keep == {i \in 1..Len(s) : s[i] \notin chars}
    IN  IF keep = {} THEN <<>>
        ELSE SubSeq(s, CHOOSE i \in keep : \A j \in keep : i <= j,
                       CHOOSE i \in keep : \A j \in keep : i >= j)

\* s.strip()
Strip(s) == StripChars(s, {" ", "\n", "\t"})

\* s.count("\n")
CountNL(s) == Cardinality({i \in 1..Len(s) : s[i] = NL})

BREAK == <<"-", "-", "-">>

(***************************************************************************)
(* _structure_slides (the Slide Segmenter)                                 *)
(***************************************************************************)

\* the tag name of <hr ...>, under re.IGNORECASE
HrWords == {"hr", "HR", "Hr", "hR"}

\* End of the match of <hr[^>]*/?> that starts at i, or 0 when there is none:
\* "<", the tag name, then everything up to the first ">" ([^>]* also runs
\* over newlines).
HrMatchEnd(s, i) ==
    IF /\ i + 2 <= Len(s)
       /\ s[i] = "<"
       /\ s[i + 1] \in HrWords
       /\ \E j \in (i + 2)..Len(s) : s[j] = ">"
    THEN CHOOSE j \in (i + 2)..Len(s) :
             s[j] = ">" /\ \A k \in (i + 2)..(j - 1) : s[k] # ">"
    ELSE 0

\* re.sub(r"<hr[^>]*/?>", "\n---\n", content, flags=re.IGNORECASE)
RECURSIVE HrSubFrom(_, _)
HrSubFrom(s, i) ==
    IF i > Len(s) THEN <<>>
    ELSE IF HrMatchEnd(s, i) # 0
         THEN <<NL>> \o BREAK \o <<NL>> \o HrSubFrom(s, HrMatchEnd(s, i) + 1)
         ELSE <<s[i]>> \o HrSubFrom(s, i + 1)

ReplaceHtmlBreaks(s) == HrSubFrom(s, 1)

\* re.match(r"^#{1,2}\s", line)
IsHeadingLine(line) ==
    \/ Len(line) >= 2 /\ line[1] = "#" /\ IsSpace(line[2])
    \/ Len(line) >= 3 /\ line[1] = "#" /\ line[2] = "#" /\ IsSpace(line[3])

\* a Segmenter that looks at the line just before i only
PrevLineIdxAdjacent(lines, i) == IF i > 1 THEN i - 1 ELSE 0

\* The while loop of lines 160-162: the index of the nearest line before i
\* that is not blank, 0 when there is none (Python's -1).
PrevLineIdx(lines, i) ==
    LET nonblank == {k \in 1..(i - 1) : Strip(lines[k]) # <<>>}
    IN  IF nonblank = {} THEN 0
        ELSE CHOOSE k \in nonblank : \A m \in nonblank : m <= k

\* a Segmenter that also breaks before a heading with nothing in front of it
NeedsBreakUnguarded(lines, i) ==
    /\ IsHeadingLine(lines[i])
    /\ \/ PrevLineIdx(lines, i) = 0
       \/ Strip(lines[PrevLineIdx(lines, i)]) # BREAK

\* line 164: the heading at i gets a "---" line in front of it
NeedsBreak(lines, i) ==
    /\ IsHeadingLine(lines[i])
    /\ PrevLineIdx(lines, i) >= 1
    /\ Strip(lines[PrevLineIdx(lines, i)]) # BREAK

\* the for loop of lines 156-167
RECURSIVE ResultLinesFrom(_, _)
ResultLinesFrom(lines, i) ==
    IF i > Len(lines) THEN <<>>
    ELSE (IF NeedsBreak(lines, i) THEN <<BREAK>> ELSE <<>>)
         \o <<lines[i]>> \o ResultLinesFrom(lines, i + 1)

ResultLines(lines) == ResultLinesFrom(lines, 1)

\* re.sub(r"\n---\n---\n", "\n---\n", content)
CollapseBreaks(s) ==
    Replace(s, <<NL>> \o BREAK \o <<NL>> \o BREAK \o <<NL>>, <<NL>> \o BREAK \o <<NL>>)

\* re.sub(r"^---\n", "", content): without re.MULTILINE, ^ is the start of the text
RemoveLeadingBreak(s) ==
    IF StartsWith(s, BREAK \o <<NL>>) THEN SubSeq(s, 5, Len(s)) ELSE s

_structure_slides(s) ==
    RemoveLeadingBreak(
        CollapseBreaks(
            Join(ResultLines(Split(ReplaceHtmlBreaks(s), <<NL>>)), <<NL>>)))

(***************************************************************************)
(* _apply_styling (the Slide Classifier/Styler)                            *)
(***************************************************************************)

\* "<!-- _class: " + tag + " -->"
ClassComment(tag) ==
    <<"<", "!", "-", "-", " ", "_class:", " ", tag, " ", "-", "-", ">">>

\* re.search(r"^#\s", slide, re.MULTILINE): "#" at the start of a line and a
\* whitespace character (a newline too) after it
HasTitleLine(slide) ==
    \E i \in 1..(Len(slide) - 1) :
        /\ slide[i] = "#"
        /\ (i = 1 \/ slide[i - 1] = NL)
        /\ IsSpace(slide[i + 1])

\* the backtick character (a string of the module cannot hold one)
BT == "BACKTICK"

\* re.search of three backticks in a row
HasCodeFence(slide) == Contains(slide, <<BT, BT, BT>>)

\* the 10 of slide.count("\n") > 10
DenseNewlines == 10

\* a Styler that counts 10 line breaks as dense
IsDenseAtTen(slide) == CountNL(slide) >= DenseNewlines

\* slide.count("\n") > 10
IsDense(slide) == CountNL(slide) > DenseNewlines

\* lines 201-207: the class of a slide, "none" when no branch is taken
SlideClass(slide) ==
    IF HasTitleLine(slide) THEN "lead"
    ELSE IF HasCodeFence(slide) THEN "code"
    ELSE IF IsDense(slide) THEN "dense"
    ELSE "none"

\* lines 196-199: i is Python's index, the first piece has i = 0
IsFrontMatter(i, slide) == i = 0 /\ StartsWith(slide, <<"marp:">>)

\* lines 196-209 for one stripped, non-empty piece
StyleSlide(i, slide) ==
    IF IsFrontMatter(i, slide) THEN slide
    ELSE IF SlideClass(slide) = "none" THEN slide
    ELSE ClassComment(SlideClass(slide)) \o <<NL, NL>> \o slide

\* a Styler that keeps empty pieces
SkipSlideNever(slide) == FALSE

\* lines 193-194: an empty piece is skipped
SkipSlide(slide) == slide = <<>>

\* the for loop of lines 191-209; k is 1-based, so Python's i is k - 1
RECURSIVE StyledSlidesFrom(_, _)
StyledSlidesFrom(slides, k) ==
    IF k > Len(slides) THEN <<>>
    ELSE (IF SkipSlide(Strip(slides[k])) THEN <<>>
          ELSE <<StyleSlide(k - 1, Strip(slides[k]))>>)
         \o StyledSlidesFrom(slides, k + 1)

\* line 188: content.split("---")
SplitSlides(s) == Split(s, BREAK)

\* "\n\n---\n\n"
SlideSeparator == <<NL, NL>> \o BREAK \o <<NL, NL>>

_apply_styling(s) == Join(StyledSlidesFrom(SplitSlides(s), 1), SlideSeparator)

(***************************************************************************)
(* _add_marp_directives (the Directive Injector)                           *)
(***************************************************************************)

\* theme_path.exists() for theme_dir / f"{config.theme}.css"
ThemeExists(dir, cfg) == cfg.theme \in dir

\* an Injector that names the configured theme without probing for its .css
ThemeDirectiveNoProbe(dir, cfg) == <<"theme:", " ">> \o cfg.theme

\* lines 115-117
ThemeDirective(dir, cfg) ==
    IF ThemeExists(dir, cfg) THEN <<"theme:", " ">> \o cfg.theme
    ELSE <<"theme:", " ", "default">>

\* str(config.paginate).lower()
BoolLower(b) == IF b THEN "true" ELSE "false"

\* lines 120-133
Directives(dir, cfg) ==
    LET base == << <<"marp:", " ", "true">>,
                   ThemeDirective(dir, cfg),
                   <<"paginate:", " ", BoolLower(cfg.paginate)>>,
                   <<"backgroundColor:", " ">> \o cfg.background_color,
                   <<"color:", " ">> \o cfg.color >>
        html == IF cfg.enable_html THEN << <<"html:", " ", "true">> >> ELSE <<>>
        pdf  == IF cfg.pdf_outlines THEN << <<"pdf.outlines:", " ", "true">> >> ELSE <<>>
    IN  SelectSeq(base \o html \o pdf, LAMBDA d : d # <<>>)

\* line 134
Header(dir, cfg) ==
    BREAK \o <<NL>> \o Join(Directives(dir, cfg), <<NL>>) \o <<NL>> \o BREAK \o <<NL, NL>>

_add_marp_directives(dir, body, cfg) == Header(dir, cfg) \o body

(***************************************************************************)
(* _sanitize_filename                                                      *)
(***************************************************************************)

\* os.path.basename on a POSIX path: what follows the last "/"
Basename(s) ==
    LET slashes == {i \in 1..Len(s) : s[i] = "/"}
    IN  IF slashes = {} THEN s
        ELSE SubSeq(s, (CHOOSE i \in slashes : \A j \in slashes : j <= i) + 1, Len(s))

\* filename.replace("..", "")
RemoveDotDot(s) == Replace(s, <<".", ".">>, <<>>)

\* the characters of invalid_chars; "NUL" stands for the character \x00
InvalidChars == {"<", ">", ":", "\"", "|", "?", "*", "\\", "/", "NUL"}

\* lines 229-230: every occurrence of every invalid character is removed
RemoveInvalidChars(s) == SelectSeq(s, LAMBDA c : c \notin InvalidChars)

\* filename.strip(". ")
StripDotsAndSpaces(s) == StripChars(s, {".", " "})

\* lines 236-237
\* a sanitizer without the fallback name
OrFallbackKeep(s) == s

OrFallback(s) == IF s = <<>> THEN <<"presentation">> ELSE s

\* a generate_presentation that builds its paths from the raw filename
SanitizeNothing(s) == s

_sanitize_filename(s) ==
    OrFallback(StripDotsAndSpaces(RemoveInvalidChars(RemoveDotDot(Basename(s)))))

(***************************************************************************)
(* Inputs                                                                  *)
(***************************************************************************)

MaxDocLines == 3     \* lines of a document given to process_claude_content
MaxBodyLines == 1    \* lines of a body given to _add_marp_directives alone
MaxHeadLines == 2    \* leading lines of a slide given to _apply_styling alone
MaxSegLines == 5     \* lines of a text given to _structure_slides alone
MaxFiller == 12      \* plain lines appended to a slide given to _apply_styling
MaxNameLen == 5      \* characters of a filename given to _sanitize_filename
MaxCalls == 2        \* successive calls of _sanitize_filename on its own result
MaxGenNameLen == 2   \* characters of a filename given to generate_presentation
MaxGenCalls == 2     \* generate_presentation calls in a row on one converter
MaxFenceLines == 3   \* lines of a document with code fences

\* every text of at most n lines, each line taken from vocab
TextsOf(vocab, n) ==
    {Join(ls, <<NL>>) : ls \in UNION {[1..k -> vocab] : k \in 0..n}}

DocLines ==
    { <<>>, <<"a">>, BREAK, <<"#", " ", "a">>, <<"#", "#", " ", "a">>,
      <<"#", "#", "#", " ", "a">>, <<"a", "-", "-", "-", "b">>, <<"<", "hr", ">">>,
      <<"#", " ", "a", "-", "-", "-", "b">> }

Documents == TextsOf(DocLines, MaxDocLines)

SegLines ==
    { <<>>, <<"a">>, BREAK, <<"#", " ", "a">>, <<"#", "#", " ", "a">>,
      <<"<", "hr", ">">> }

SegTexts == TextsOf(SegLines, MaxSegLines)

\* MarpConfig(): the defaults of lines 21-26
DefaultConfig ==
    [ theme |-> <<"corporate">>, paginate |-> TRUE,
      background_color |-> <<"#", "ffffff">>, color |-> <<"#", "2c3e50">>,
      enable_html |-> TRUE, pdf_outlines |-> TRUE ]

\* color strings are not validated: a well-formed one and one holding "---"
Colors == { <<"#", "ffffff">>, <<"a", "-", "-", "-", "b">> }

Configs ==
    [ theme : {<<"corporate">>, <<"gaia">>}, paginate : BOOLEAN,
      background_color : Colors, color : {<<"#", "2c3e50">>},
      enable_html : BOOLEAN, pdf_outlines : BOOLEAN ]

ThemeDirs == { {}, {<<"corporate">>} }

\* the theme directories and configurations the whole pipeline is run with
PipelineSettings ==
    { [dir |-> {}, cfg |-> DefaultConfig],
      [dir |-> {<<"corporate">>},
       cfg |-> [DefaultConfig EXCEPT !.paginate = FALSE, !.enable_html = FALSE,
                                     !.pdf_outlines = FALSE]],
      [dir |-> {},
       cfg |-> [DefaultConfig EXCEPT !.background_color = <<"a", "-", "-", "-", "b">>]] }

NameChars == {"a", ".", "/", ":", " "}

Filenames == UNION {[1..k -> NameChars] : k \in 0..MaxNameLen}

(***************************************************************************)
(* process_claude_content, one step per stage                              *)
(***************************************************************************)

Init ==
    /\ pc = "start"
    /\ \E st \in PipelineSettings : theme_dir = st.dir /\ config = st.cfg
    /\ content \in Documents
    /\ marp_content = <<>>
    /\ filename = <<>>
    /\ sanitized = <<>>
    /\ GenIdle
    /\ OuterIdle

\* line 92
AddMarpDirectives ==
    /\ pc = "start"
    /\ marp_content' = _add_marp_directives(theme_dir, content, config)
    /\ pc' = "directives"
    /\ UNCHANGED outerVars
    /\ UNCHANGED <<theme_dir, content, config, filename, sanitized>>
    /\ UNCHANGED genVars

\* line 95
StructureSlides ==
    /\ pc = "directives"
    /\ marp_content' = _structure_slides(marp_content)
    /\ pc' = "structured"
    /\ UNCHANGED outerVars
    /\ UNCHANGED <<theme_dir, content, config, filename, sanitized>>
    /\ UNCHANGED genVars

\* lines 98-100
ApplyStyling ==
    /\ pc = "structured"
    /\ marp_content' = _apply_styling(marp_content)
    /\ pc' = "done"
    /\ UNCHANGED outerVars
    /\ UNCHANGED <<theme_dir, content, config, filename, sanitized>>
    /\ UNCHANGED genVars

Next == AddMarpDirectives \/ StructureSlides \/ ApplyStyling

Spec == Init /\ [][Next]_vars

(***************************************************************************)
(* _structure_slides called on a text of its own                           *)
(***************************************************************************)

InitSegmenter ==
    /\ pc = "call"
    /\ theme_dir = {}
    /\ content \in SegTexts
    /\ config = DefaultConfig
    /\ marp_content = <<>>
    /\ filename = <<>>
    /\ sanitized = <<>>
    /\ GenIdle
    /\ OuterIdle

CallStructureSlides ==
    /\ pc = "call"
    /\ marp_content' = _structure_slides(content)
    /\ pc' = "returned"
    /\ UNCHANGED outerVars
    /\ UNCHANGED <<theme_dir, content, config, filename, sanitized>>
    /\ UNCHANGED genVars

SpecSegmenter == InitSegmenter /\ [][CallStructureSlides]_vars

(***************************************************************************)
(* _sanitize_filename called on a filename, then on its own result         *)
(***************************************************************************)

InitSanitize ==
    /\ pc = "call"
    /\ theme_dir = {}
    /\ content = <<>>
    /\ config = DefaultConfig
    /\ marp_content = <<>>
    /\ filename \in Filenames
    /\ sanitized = <<>>
    /\ GenIdle
    /\ OuterIdle

CallSanitizeFilename ==
    /\ pc = "call"
    /\ Len(sanitized) < MaxCalls
    /\ sanitized' = Append(sanitized,
                           _sanitize_filename(IF sanitized = <<>> THEN filename
                                              ELSE sanitized[Len(sanitized)]))
    /\ UNCHANGED outerVars
    /\ UNCHANGED <<pc, theme_dir, content, config, marp_content, filename>>
    /\ UNCHANGED genVars

SpecSanitize == InitSanitize /\ [][CallSanitizeFilename]_vars

(***************************************************************************)
(* _add_marp_directives called on a body of its own                        *)
(***************************************************************************)

InitDirectives ==
    /\ pc = "call"
    /\ theme_dir \in ThemeDirs
    /\ content \in TextsOf(DocLines, MaxBodyLines)
    /\ config \in Configs
    /\ marp_content = <<>>
    /\ filename = <<>>
    /\ sanitized = <<>>
    /\ GenIdle
    /\ OuterIdle

CallAddMarpDirectives ==
    /\ pc = "call"
    /\ marp_content' = _add_marp_directives(theme_dir, content, config)
    /\ pc' = "returned"
    /\ UNCHANGED outerVars
    /\ UNCHANGED <<theme_dir, content, config, filename, sanitized>>
    /\ UNCHANGED genVars

SpecDirectives == InitDirectives /\ [][CallAddMarpDirectives]_vars

(***************************************************************************)
(* Vocabulary of the properties                                            *)
(***************************************************************************)

LinesOf(s) == Split(s, <<NL>>)

EndsWith(s, pat) == Len(pat) <= Len(s) /\ MatchAt(s, Len(s) - Len(pat) + 1, pat)

IsBlankLine(line) == \A i \in 1..Len(line) : IsSpace(line[i])

\* a line holding the canonical break marker and nothing else but blanks
IsBreakLine(line) == Strip(line) = BREAK

\* index of the nearest non-blank line before line i, 0 when there is none
NearestNonBlankBefore(lines, i) ==
    LET nb == {k \in 1..(i - 1) : ~IsBlankLine(lines[k])}
    IN  IF nb = {} THEN 0 ELSE CHOOSE k \in nb : \A m \in nb : m <= k

\* the first non-blank line of a text, <<>> when every line is blank
FirstNonBlankLine(s) ==
    LET lines == LinesOf(s)
        nb == {k \in 1..Len(lines) : ~IsBlankLine(lines[k])}
    IN  IF nb = {} THEN <<>> ELSE lines[CHOOSE k \in nb : \A m \in nb : k <= m]

\* the front matter in the wire format of the specification, closing line included
WireFrontMatter(dir, cfg) ==
    <<"-", "-", "-", NL, "marp:", " ", "true", NL>>
    \o <<"theme:", " ">> \o (IF cfg.theme \in dir THEN cfg.theme ELSE <<"default">>) \o <<NL>>
    \o <<"paginate:", " ", IF cfg.paginate THEN "true" ELSE "false", NL>>
    \o <<"backgroundColor:", " ">> \o cfg.background_color \o <<NL>>
    \o <<"color:", " ">> \o cfg.color \o <<NL>>
    \o (IF cfg.enable_html THEN <<"html:", " ", "true", NL>> ELSE <<>>)
    \o (IF cfg.pdf_outlines THEN <<"pdf.outlines:", " ", "true", NL>> ELSE <<>>)
    \o <<"-", "-", "-", NL>>

(***************************************************************************)
(* C1: the text process_claude_content returns starts with a well-formed   *)
(* front-matter block: an opening --- line, marp: true as first directive, *)
(* the remaining directives, a closing --- line, before any body content.  *)
(* The code does not satisfy it: _structure_slides removes the opening     *)
(* line (line 173), so the returned text starts with "marp: true".         *)
(***************************************************************************)
C1_FrontMatterWellFormed ==
    pc = "done" =>
        \/ StartsWith(marp_content, WireFrontMatter(theme_dir, config))
        \/ marp_content \o <<NL>> = WireFrontMatter(theme_dir, config)

(***************************************************************************)
(* C2: _add_marp_directives returns ---, the directives in the fixed order *)
(* (html and pdf.outlines only when enabled), ---, a blank line and the    *)
(* body unchanged; the theme line names the configured theme when its .css *)
(* is in the theme directory and default otherwise; the theme directory is *)
(* left as it was.                                                         *)
(***************************************************************************)
C2_DirectivesFormat ==
    [][CallAddMarpDirectives =>
          /\ marp_content' = WireFrontMatter(theme_dir, config) \o <<NL>> \o content
          /\ theme_dir' = theme_dir]_vars

\* a call with a theme whose .css exists, html off and pdf outlines on has returned
C2_Witness ==
    /\ pc = "returned"
    /\ config.theme \in theme_dir
    /\ ~config.enable_html
    /\ config.pdf_outlines
    /\ content # <<>>
    /\ Contains(marp_content, <<"theme:", " ", "corporate", NL>>)
    /\ EndsWith(marp_content, <<"-", "-", "-", NL, NL>> \o content)

(***************************************************************************)
(* C3: the text _structure_slides returns never holds two break markers on *)
(* consecutive lines (newline, ---, newline, ---, newline).  The code does *)
(* not satisfy it: the single pass of line 172 leaves one such pair behind *)
(* for a run of three marker lines.                                        *)
(***************************************************************************)
C3_NoConsecutiveBreaks ==
    pc = "returned" =>
        ~Contains(marp_content, <<NL>> \o BREAK \o <<NL>> \o BREAK \o <<NL>>)

(***************************************************************************)
(* C4: in the text process_claude_content returns, every two successive    *)
(* break-marker lines have a non-blank line between them, and there is a   *)
(* non-blank line before the first and after the last of them.             *)
(***************************************************************************)
NoEmptySlide(s) ==
    LET lines == LinesOf(s)
        marks == {i \in 1..Len(lines) : IsBreakLine(lines[i])}
    IN  \A i \in marks :
            /\ NearestNonBlankBefore(lines, i) # 0
            /\ ~IsBreakLine(lines[NearestNonBlankBefore(lines, i)])
            /\ \E k \in (i + 1)..Len(lines) : ~IsBlankLine(lines[k])

C4_NoEmptySlides == pc = "done" => NoEmptySlide(marp_content)

\* the pipeline has returned a text with three slides after a document that
\* held break markers with nothing between them
C4_Witness ==
    /\ pc = "done"
    /\ Contains(content, BREAK \o <<NL>> \o BREAK)
    /\ Cardinality({i \in 1..Len(LinesOf(marp_content)) :
                       IsBreakLine(LinesOf(marp_content)[i])}) >= 2

(***************************************************************************)
(* _apply_styling called on a text of its own                              *)
(***************************************************************************)

\* a front-matter piece and a break line, as the Segmenter leaves them
StylerPreamble == <<"marp:", " ", "true", NL, "-", "-", "-", NL>>

StylerLines ==
    { <<"a">>, <<"#", " ", "a">>, <<"#", "#", " ", "a">>, <<"#">>, <<BT, BT, BT>> }

\* one slide: some leading lines, then n plain lines
SlideBodies ==
    { Join(head \o [i \in 1..n |-> <<"a">>], <<NL>>) :
        head \in UNION {[1..k -> StylerLines] : k \in 0..MaxHeadLines},
        n \in 0..MaxFiller }

StylerTexts == SlideBodies \cup {StylerPreamble \o b : b \in SlideBodies}

InitStyler ==
    /\ pc = "call"
    /\ theme_dir = {}
    /\ content \in StylerTexts
    /\ config = DefaultConfig
    /\ marp_content = <<>>
    /\ filename = <<>>
    /\ sanitized = <<>>
    /\ GenIdle
    /\ OuterIdle

CallApplyStyling ==
    /\ pc = "call"
    /\ marp_content' = _apply_styling(content)
    /\ pc' = "returned"
    /\ UNCHANGED outerVars
    /\ UNCHANGED <<theme_dir, content, config, filename, sanitized>>
    /\ UNCHANGED genVars

SpecStyler == InitStyler /\ [][CallApplyStyling]_vars

(***************************************************************************)
(* More vocabulary of the properties                                       *)
(***************************************************************************)

\* a level-1 or level-2 heading line: one or two "#", then a blank
IsTopHeading(line) ==
    \E n \in 1..2 :
        /\ Len(line) > n
        /\ \A k \in 1..n : line[k] = "#"
        /\ line[n + 1] \in {" ", "\t"}

BreakLineCount(s) ==
    Cardinality({i \in 1..Len(LinesOf(s)) : IsBreakLine(LinesOf(s)[i])})

\* no field of the configuration holds a break marker or a newline
PlainConfig(cfg) ==
    \A f \in {cfg.theme, cfg.background_color, cfg.color} :
        ~Contains(f, BREAK) /\ ~Contains(f, <<NL>>)

\* the directive lines of the wire format, without the two --- lines
DirectiveBlock(dir, cfg) ==
    SubSeq(WireFrontMatter(dir, cfg), 5, Len(WireFrontMatter(dir, cfg)) - 5)

\* two break lines with nothing but blank lines between them
HasRepeatedBreak(lines) ==
    \E j \in 1..Len(lines) :
        /\ IsBreakLine(lines[j])
        /\ NearestNonBlankBefore(lines, j) # 0
        /\ IsBreakLine(lines[NearestNonBlankBefore(lines, j)])

\* a heading behind two break lines with nothing but blank lines between the three
HasHeadingAfterRepeatedBreak(lines) ==
    \E j \in 1..Len(lines) :
        /\ IsTopHeading(lines[j])
        /\ NearestNonBlankBefore(lines, j) # 0
        /\ IsBreakLine(lines[NearestNonBlankBefore(lines, j)])
        /\ NearestNonBlankBefore(lines, NearestNonBlankBefore(lines, j)) # 0
        /\ IsBreakLine(lines[NearestNonBlankBefore(lines, NearestNonBlankBefore(lines, j))])

(***************************************************************************)
(* C5: for a document whose first non-blank line is a level-1 or level-2   *)
(* heading, _structure_slides run on the document alone returns a text     *)
(* whose first non-blank line is not a break marker, and the pipeline      *)
(* (under a configuration with plain field values) returns the directive   *)
(* lines, one separator, and then the slide that starts with that heading  *)
(* (behind its style annotation when it has one; the heading up to the     *)
(* first break marker inside its line, when it holds one).                 *)
(***************************************************************************)
C5_NoLeadingEmptySlide ==
    (pc = "done" /\ PlainConfig(config) /\ IsTopHeading(FirstNonBlankLine(content))) =>
        LET h == Strip(Split(FirstNonBlankLine(ReplaceHtmlBreaks(content)), BREAK)[1])
            parts == Split(marp_content, SlideSeparator)
        IN  /\ ~IsBreakLine(FirstNonBlankLine(_structure_slides(content)))
            /\ Len(parts) >= 2
            /\ parts[1] = DirectiveBlock(theme_dir, config)
            /\ \/ StartsWith(parts[2], h)
               \/ \E tag \in {"lead", "code", "dense"} :
                      StartsWith(parts[2], ClassComment(tag) \o <<NL, NL>> \o h)

\* the pipeline has returned for a document that starts with a blank line and
\* then a level-1 heading, and the heading's slide is annotated
C5_Witness ==
    /\ pc = "done"
    /\ PlainConfig(config)
    /\ StartsWith(content, <<NL, "#", " ", "a">>)
    /\ Contains(marp_content,
                SlideSeparator \o ClassComment("lead") \o <<NL, NL, "#", " ", "a">>)

(***************************************************************************)
(* C6: in the text _structure_slides returns, every level-1 or level-2     *)
(* heading line with a non-blank line somewhere before it has a break      *)
(* marker as its nearest preceding non-blank line; and a heading is behind *)
(* two break markers separated only by blank lines only when the text it   *)
(* was given (its <hr> tags read as break markers) already held two such   *)
(* markers: a heading already behind a marker is not given a second one.   *)
(***************************************************************************)
C6_HeadingsStartSlides ==
    pc = "returned" =>
        LET out == LinesOf(marp_content)
        IN  /\ \A j \in 1..Len(out) :
                   (IsTopHeading(out[j]) /\ NearestNonBlankBefore(out, j) # 0)
                       => IsBreakLine(out[NearestNonBlankBefore(out, j)])
            /\ HasHeadingAfterRepeatedBreak(out)
                   => HasRepeatedBreak(LinesOf(ReplaceHtmlBreaks(content)))

\* the Segmenter has returned for a text with one heading behind a plain line
\* and another behind a marker and a blank line: one marker was added
C6_Witness ==
    /\ pc = "returned"
    /\ Contains(content, <<"a", NL, "#", " ", "a", NL>> \o BREAK \o <<NL, NL, "#", " ", "a">>)
    /\ BreakLineCount(marp_content) = BreakLineCount(content) + 1

(***************************************************************************)
(* C7: _structure_slides adds no break marker to a document that has no    *)
(* level-1 or level-2 heading, and a document (not blank) with no such     *)
(* heading and no explicit break comes out of the pipeline as the front    *)
(* matter followed by a single slide.  The code does not satisfy the       *)
(* second part: _apply_styling splits at every "---", also inside a line.  *)
(***************************************************************************)
C7_SingleSlideWithoutHeadings ==
    LET lines == LinesOf(content)
        noHeading == \A i \in 1..Len(lines) : ~IsTopHeading(lines[i])
        noBreak == /\ \A i \in 1..Len(lines) : ~IsBreakLine(lines[i])
                   /\ ~\E i \in 1..Len(content) : HrMatchEnd(content, i) # 0
    IN  (pc = "done" /\ PlainConfig(config) /\ noHeading) =>
            /\ BreakLineCount(_structure_slides(content))
                   <= BreakLineCount(ReplaceHtmlBreaks(content))
            /\ (noBreak /\ Strip(content) # <<>>) => BreakLineCount(marp_content) = 1

(***************************************************************************)
(* C8: _apply_styling tags a slide by its trimmed content alone, first     *)
(* match wins: a level-1 heading line gives lead; else three backticks in  *)
(* a row give code; else more than 10 line breaks give dense; else no tag. *)
(* A tagged slide gets one annotation line and a blank line in front of    *)
(* it, an untagged slide is left as it is.  (A line that is only "#" is a  *)
(* level-1 heading here when another line follows it.)                     *)
(***************************************************************************)
ExpectedTag(slide) ==
    LET lines == LinesOf(slide)
        title == \E k \in 1..Len(lines) :
                     \/ Len(lines[k]) >= 2 /\ lines[k][1] = "#" /\ lines[k][2] \in {" ", "\t"}
                     \/ lines[k] = <<"#">> /\ k < Len(lines)
        fence == \E k \in 1..Len(lines) : Contains(lines[k], <<BT, BT, BT>>)
    IN  IF title THEN "lead"
        ELSE IF fence THEN "code"
        ELSE IF Len(lines) > 11 THEN "dense"
        ELSE "none"

ExpectedSlide(slide) ==
    IF ExpectedTag(slide) = "none" THEN slide
    ELSE <<"<", "!", "-", "-", " ", "_class:", " ", ExpectedTag(slide), " ", "-", "-", ">">>
         \o <<NL, NL>> \o slide

C8_StyleByContent ==
    pc = "returned" =>
        LET pre == StartsWith(content, StylerPreamble)
            body == IF pre THEN SubSeq(content, Len(StylerPreamble) + 1, Len(content))
                    ELSE content
            front == IF pre THEN << <<"marp:", " ", "true">> >> ELSE <<>>
            slide == IF body = <<>> THEN <<>> ELSE <<ExpectedSlide(body)>>
        IN  marp_content = Join(front \o slide, <<NL, NL, "-", "-", "-", NL, NL>>)

\* the Styler has returned for a slide with a code fence and 12 line breaks
\* and no level-1 heading: it is tagged code, not dense
C8_Witness ==
    /\ pc = "returned"
    /\ StartsWith(content, StylerPreamble)
    /\ Contains(content, <<BT, BT, BT>>)
    /\ ~HasTitleLine(content)
    /\ CountNL(content) > 12
    /\ Contains(marp_content, ClassComment("code"))

(***************************************************************************)
(* C9: whatever the configuration, the directive lines written by          *)
(* _add_marp_directives are in the text process_claude_content returns as  *)
(* one block at its start, with no break marker and no style annotation    *)
(* inside or in front of it.  The code does not satisfy it: a color that   *)
(* holds "---" is split by _apply_styling like any other text.             *)
(***************************************************************************)
C9_FrontMatterIntact ==
    pc = "done" =>
        LET fm == DirectiveBlock(theme_dir, config)
        IN  \/ marp_content = fm
            \/ StartsWith(marp_content, fm \o SlideSeparator)

(***************************************************************************)
(* C10: _sanitize_filename applied to its own result returns that result.  *)
(* The code does not satisfy it: removing an invalid character can bring   *)
(* two dots together, which only a second call removes.                    *)
(***************************************************************************)
C10_SanitizeIdempotent ==
    Len(sanitized) >= 2 => sanitized[2] = sanitized[1]

\* first or last character of a name is a dot or a space
HasEdgeDotOrSpace(name) ==
    /\ name # <<>>
    /\ \/ name[1] \in {".", " "}
       \/ name[Len(name)] \in {".", " "}

(***************************************************************************)
(* C11: the name _sanitize_filename returns holds no "..", none of the     *)
(* reserved characters, and neither starts nor ends with a dot or a space. *)
(* The code does not satisfy it: ".." is removed before the reserved       *)
(* characters are, so removing one between two dots leaves "..".           *)
(***************************************************************************)
C11_SanitizedIsClean ==
    Len(sanitized) >= 1 =>
        /\ ~Contains(sanitized[1], <<".", ".">>)
        /\ \A i \in 1..Len(sanitized[1]) : sanitized[1][i] \notin InvalidChars
        /\ ~HasEdgeDotOrSpace(sanitized[1])

(***************************************************************************)
(* generate_presentation (lines 240-317)                                   *)
(***************************************************************************)

\* self.output_dir, line 60 with the default of line 47
OutputDir == <<"presentations">>

\* str(self.theme_dir), line 61 with the default of line 48
ThemeDirPath == <<"themes">>

\* the components pathlib keeps of a path text: empty ones and "." are dropped
PathParts(s) ==
    SelectSeq(Split(s, <<"/">>), LAMBDA c : c # <<>> /\ c # <<".">>)

\* the root pathlib keeps of a path text: "", "/" or "//" (exactly two slashes)
PathRoot(s) ==
    IF ~StartsWith(s, <<"/">>) THEN <<>>
    ELSE IF StartsWith(s, <<"/", "/">>) /\ ~StartsWith(s, <<"/", "/", "/">>)
         THEN <<"/", "/">>
    ELSE <<"/">>

\* str(Path(dir) / rel): an absolute right-hand side replaces the left one
PathJoin(dir, rel) ==
    IF PathRoot(rel) # <<>>
    THEN PathRoot(rel) \o Join(PathParts(rel), <<"/">>)
    ELSE PathRoot(dir) \o Join(PathParts(dir) \o PathParts(rel), <<"/">>)

\* line 275
MdFile(name) == PathJoin(OutputDir, name \o <<".", "md">>)

\* line 280
OutputFile(name, fmt) == PathJoin(OutputDir, name \o <<".">> \o fmt)

\* line 264
ValidFormats == {<<"pptx">>, <<"pdf">>, <<"html">>}

\* a validation that lets every format through
ValidFormatAny(fmt) == TRUE

\* line 265
ValidFormat(fmt) == fmt \in ValidFormats

\* str(valid_formats)
ValidFormatsText == <<"['pptx', 'pdf', 'html']">>

\* line 268
InvalidFormatMessage(fmt) ==
    <<"Invalid output format: ">> \o fmt \o <<". Must be one of ">>
        \o ValidFormatsText

\* a process_claude_content without the None check
ContentNeverNone(c) == FALSE

\* line 85
ContentIsNone(c) == c = None

\* a command that asks for PowerPoint whatever the format
FormatFlagPptx(fmt) == << <<"--pptx">> >>

\* lines 286-291
FormatFlag(fmt) ==
    IF fmt = <<"pptx">> THEN << <<"--pptx">> >>
    ELSE IF fmt = <<"pdf">> THEN << <<"--pdf">> >>
    ELSE IF fmt = <<"html">> THEN << <<"--html">> >>
    ELSE <<>>

\* lines 297-298
ThemeSetArgs(dir) ==
    IF dir # {} THEN << <<"--theme-set">>, ThemeDirPath >> ELSE <<>>

\* lines 283-298: the argument list given to subprocess.run
Command(md, name, fmt, dir) ==
    << <<"marp">>, md >> \o FormatFlag(fmt)
        \o << <<"--output">>, OutputFile(name, fmt) >> \o ThemeSetArgs(dir)

\* a renderer call that goes through the shell
ShellOn == TRUE

\* line 301: subprocess.run is called without shell=, so with its default
Shell == FALSE

\* a write that leaves no other file in the directory
WriteFileAlone(files, path, text) == [p \in {path} |-> text]

\* a write that leaves the file system as it was
WriteFileNothing(files, path, text) == files

\* lines 276-277: open(path, "w") and f.write(text)
WriteFile(files, path, text) ==
    [p \in DOMAIN files \cup {path} |-> IF p = path THEN text ELSE files[p]]

\* a failed outcome that carries no message
FailureNoMessage(msg, md) ==
    [success |-> FALSE, output_path |-> None, error_message |-> None,
     markdown_path |-> md]

\* ConversionResult(success=False, error_message=msg, markdown_path=md):
\* lines 266-269, 309-313 and 315-317
Failure(msg, md) ==
    [success |-> FALSE, output_path |-> None, error_message |-> msg,
     markdown_path |-> md]

\* ConversionResult(success=True, output_path=out, markdown_path=md):
\* lines 303-305
Success(out, md) ==
    [success |-> TRUE, output_path |-> out, error_message |-> None,
     markdown_path |-> md]

\* the exceptions of the model; msg is str(e)
ValueErrorNone ==
    [type |-> "ValueError", msg |-> <<"Content cannot be None">>,
     stderr |-> <<>>, stdout |-> <<>>]

OSErrorOnWrite ==
    [type |-> "OSError", msg |-> <<"[Errno 28] No space left on device">>,
     stderr |-> <<>>, stdout |-> <<>>]

PermissionErrorOnOpen ==
    [type |-> "PermissionError", msg |-> <<"[Errno 13] Permission denied">>,
     stderr |-> <<>>, stdout |-> <<>>]

\* a `marp` on the PATH that may not be executed
PermissionErrorMarp ==
    [type |-> "PermissionError",
     msg |-> <<"[Errno 13] Permission denied: 'marp'">>,
     stderr |-> <<>>, stdout |-> <<>>]

FileNotFoundErrorMarp ==
    [type |-> "FileNotFoundError",
     msg |-> <<"[Errno 2] No such file or directory: 'marp'">>,
     stderr |-> <<>>, stdout |-> <<>>]

\* what the renderer can leave on its two streams
Captured == { <<>>, <<"renderer", " ", "error">> }

CalledProcessError(err, out) ==
    [type |-> "CalledProcessError",
     msg |-> <<"Command returned non-zero exit status 1.">>,
     stderr |-> err, stdout |-> out]

\* line 308: e.stderr or e.stdout or str(e)
ErrorDetail(e) ==
    IF e.stderr # <<>> THEN e.stderr
    ELSE IF e.stdout # <<>> THEN e.stdout
    ELSE e.msg

\* a handler that never reports the markdown path
HandlerMarkdownPathNone(md) == None

\* line 312: str(md_file) if "md_file" in locals() else None
HandlerMarkdownPath(md) == IF md # None THEN md ELSE None

\* a last handler that catches ValueError only
CaughtOnlyValueError(e) == e.type = "ValueError"

\* line 314: `except Exception` catches every exception of the model
CaughtByException(e) == e.type # "none"

\* the inputs of generate_presentation
GenNameChars == {"a", ".", " ", "/", "\\", ";", "$", "|"}

GenFilenames == UNION {[1..k -> GenNameChars] : k \in 0..MaxGenNameLen}

GenContents == {None, <<>>, <<"#", " ", "a", NL, "a">>}

GenFormats == ValidFormats \cup {<<"docx">>}

InitGenerate ==
    /\ pc = "sanitize"
    /\ \E st \in PipelineSettings : theme_dir = st.dir /\ config = st.cfg
    /\ content \in GenContents
    /\ marp_content = <<>>
    /\ filename \in GenFilenames
    /\ sanitized = <<>>
    /\ output_format \in GenFormats
    /\ md_file = None
    /\ fs = <<>>
    /\ runs = <<>>
    /\ exc = NoExc
    /\ result = NoResult
    /\ OuterIdle

\* line 261
SanitizeFilename ==
    /\ pc = "sanitize"
    /\ sanitized' = <<_sanitize_filename(filename)>>
    /\ pc' = "validate"
    /\ UNCHANGED outerVars
    /\ UNCHANGED <<theme_dir, content, config, marp_content, filename>>
    /\ UNCHANGED genVars

\* lines 264-269
ValidateFormat ==
    /\ pc = "validate"
    /\ IF ValidFormat(output_format)
       THEN /\ pc' = "process"
            /\ UNCHANGED result
       ELSE /\ result' = Failure(InvalidFormatMessage(output_format), None)
            /\ pc' = "returned"
    /\ UNCHANGED outerVars
    /\ UNCHANGED <<theme_dir, content, config, marp_content, filename, sanitized>>
    /\ UNCHANGED <<output_format, md_file, fs, runs, exc>>

\* line 272 entering process_claude_content, lines 85-86
ProcessClaudeContent ==
    /\ pc = "process"
    /\ IF ContentIsNone(content)
       THEN /\ exc' = ValueErrorNone
            /\ pc' = "except"
       ELSE /\ pc' = "start"
            /\ UNCHANGED exc
    /\ UNCHANGED outerVars
    /\ UNCHANGED <<theme_dir, content, config, marp_content, filename, sanitized>>
    /\ UNCHANGED <<output_format, md_file, fs, runs, result>>

\* lines 275-277, once process_claude_content has returned
WriteMarkdown ==
    /\ pc = "done"
    /\ md_file' = MdFile(sanitized[1])
    /\ \/ /\ fs' = WriteFile(fs, md_file', marp_content)
          /\ pc' = "written"
          /\ UNCHANGED exc
       \/ /\ fs' = fs
          /\ exc' = PermissionErrorOnOpen
          /\ pc' = "except"
       \/ /\ fs' = WriteFile(fs, md_file', <<>>)
          /\ exc' = OSErrorOnWrite
          /\ pc' = "except"
    /\ UNCHANGED outerVars
    /\ UNCHANGED <<theme_dir, content, config, marp_content, filename, sanitized>>
    /\ UNCHANGED <<output_format, runs, result>>

\* lines 280-305
RunMarp ==
    /\ pc = "written"
    /\ runs' = Append(runs, [cmd |-> Command(md_file, sanitized[1],
                                             output_format, theme_dir),
                             shell |-> Shell])
    /\ \/ /\ fs' = WriteFile(fs, OutputFile(sanitized[1], output_format),
                             <<"rendered">>)
          /\ result' = Success(OutputFile(sanitized[1], output_format),
                                md_file)
          /\ pc' = "returned"
          /\ UNCHANGED exc
       \/ /\ \E err \in Captured, out \in Captured :
                exc' = CalledProcessError(err, out)
          /\ pc' = "except"
          /\ UNCHANGED <<fs, result>>
       \/ /\ exc' \in {FileNotFoundErrorMarp, PermissionErrorMarp}
          /\ pc' = "except"
          /\ UNCHANGED <<fs, result>>
    /\ UNCHANGED outerVars
    /\ UNCHANGED <<theme_dir, content, config, marp_content, filename, sanitized>>
    /\ UNCHANGED <<output_format, md_file>>

\* lines 307-313
HandleCalledProcessError ==
    /\ pc = "except"
    /\ exc.type = "CalledProcessError"
    /\ result' = Failure(<<"MARP conversion failed: ">> \o ErrorDetail(exc),
                          HandlerMarkdownPath(md_file))
    /\ pc' = "returned"
    /\ UNCHANGED outerVars
    /\ UNCHANGED <<theme_dir, content, config, marp_content, filename, sanitized>>
    /\ UNCHANGED <<output_format, md_file, fs, runs, exc>>

\* lines 314-317; an exception no handler catches leaves the function
HandleException ==
    /\ pc = "except"
    /\ exc.type # "CalledProcessError"
    /\ IF CaughtByException(exc)
       THEN /\ result' = Failure(<<"Unexpected error: ">> \o exc.msg, None)
            /\ pc' = "returned"
       ELSE /\ pc' = "raised"
            /\ UNCHANGED result
    /\ UNCHANGED outerVars
    /\ UNCHANGED <<theme_dir, content, config, marp_content, filename, sanitized>>
    /\ UNCHANGED <<output_format, md_file, fs, runs, exc>>

NextGenerate ==
    \/ SanitizeFilename
    \/ ValidateFormat
    \/ ProcessClaudeContent
    \/ AddMarpDirectives
    \/ StructureSlides
    \/ ApplyStyling
    \/ WriteMarkdown
    \/ RunMarp
    \/ HandleCalledProcessError
    \/ HandleException

SpecGenerate == InitGenerate /\ [][NextGenerate]_vars

(***************************************************************************)
(* Vocabulary of the properties of generate_presentation                   *)
(***************************************************************************)

\* nothing of the name after its last "/" survives cleaning and trimming
CleanedEmpty(name) ==
    \A i \in 1..Len(Basename(name)) :
        Basename(name)[i] \in InvalidChars \cup {".", " "}

PresentationMd == <<"presentations", "/", "presentation", ".", "md">>

\* generate_presentation has returned and nothing was raised on the way
ReturnedCleanly ==
    /\ pc = "returned"
    /\ ValidFormat(output_format)
    /\ exc = NoExc

IsDirectChild(p) ==
    /\ StartsWith(p, OutputDir \o <<"/">>)
    /\ LET n == SubSeq(p, Len(OutputDir) + 2, Len(p))
       IN  /\ n # <<>>
           /\ n # <<".">>
           /\ n # <<".", ".">>
           /\ \A i \in 1..Len(n) : n[i] \notin {"/", "\\"}

\* the argument that follows `flag` in an argument list
ArgAfter(cmd, flag) ==
    cmd[1 + CHOOSE k \in 1..(Len(cmd) - 1) : cmd[k] = flag]

(***************************************************************************)
(* C13: whatever the filename, the .md path and the output path that       *)
(* generate_presentation builds, writes to, passes to the renderer and     *)
(* returns name direct children of the output directory, and no path is    *)
(* built before the filename has been sanitized.                           *)
(***************************************************************************)
C13_PathsInsideOutputDir ==
    /\ md_file # None => sanitized # <<>> /\ IsDirectChild(md_file)
    /\ \A p \in DOMAIN fs : IsDirectChild(p)
    /\ \A i \in 1..Len(runs) :
          /\ IsDirectChild(runs[i].cmd[2])
          /\ IsDirectChild(ArgAfter(runs[i].cmd, <<"--output">>))
    /\ result.output_path # None => IsDirectChild(result.output_path)
    /\ result.markdown_path # None => IsDirectChild(result.markdown_path)

C13_Witness ==
    /\ pc = "returned"
    /\ filename = <<"/", "a">>
    /\ result.success
    /\ DOMAIN fs = { <<"presentations", "/", "a", ".", "md">>,
                     <<"presentations", "/", "a", ".">> \o output_format }

(***************************************************************************)
(* C14: with an output format other than pptx, pdf and html no file is     *)
(* written and the renderer is not called at any point, and the outcome    *)
(* returned is a failure whose message holds the given format and the      *)
(* allowed formats and whose output and markdown paths are absent.         *)
(***************************************************************************)
C14_InvalidFormatRejected ==
    output_format \notin {<<"pptx">>, <<"pdf">>, <<"html">>} =>
        /\ fs = <<>>
        /\ runs = <<>>
        /\ md_file = None
        /\ pc = "returned" =>
              /\ ~result.success
              /\ Contains(result.error_message, output_format)
              /\ Contains(result.error_message, <<"['pptx', 'pdf', 'html']">>)
              /\ result.output_path = None
              /\ result.markdown_path = None

C14_Witness ==
    /\ pc = "returned"
    /\ output_format = <<"docx">>
    /\ ~result.success
    /\ result.error_message # None

(***************************************************************************)
(* C15: with content None no stage of the pipeline runs, the only thing    *)
(* raised is the ValueError "Content cannot be None", no file is written   *)
(* and the renderer is not called, and the outcome returned for a valid    *)
(* format is a failure that carries that message.                          *)
(***************************************************************************)
C15_NoneContentRejected ==
    content = None =>
        /\ pc \notin {"start", "directives", "structured", "done", "written"}
        /\ marp_content = <<>>
        /\ fs = <<>>
        /\ runs = <<>>
        /\ exc # NoExc =>
              /\ exc.type = "ValueError"
              /\ exc.msg = <<"Content cannot be None">>
        /\ pc = "returned" /\ ValidFormat(output_format) =>
              /\ exc # NoExc
              /\ ~result.success
              /\ result.error_message =
                     <<"Unexpected error: ", "Content cannot be None">>

C15_Witness ==
    /\ pc = "returned"
    /\ content = None
    /\ exc.type = "ValueError"
    /\ ~result.success

\* what the renderer left on stderr, or else on stdout
CapturedText(e) == IF e.stderr # <<>> THEN e.stderr ELSE e.stdout

(***************************************************************************)
(* C16: when the renderer exits non-zero the outcome is a failure whose    *)
(* message holds the text captured from the renderer, whose output path is *)
(* absent and whose markdown path is the .md file, which is in the output  *)
(* directory with the text that was written to it.                         *)
(***************************************************************************)
C16_RendererFailureReported ==
    pc = "returned" /\ exc.type = "CalledProcessError" =>
        /\ ~result.success
        /\ Contains(result.error_message, CapturedText(exc))
        /\ result.output_path = None
        /\ result.markdown_path = md_file
        /\ md_file \in DOMAIN fs
        /\ fs[md_file] = marp_content

C16_Witness ==
    /\ pc = "returned"
    /\ exc.type = "CalledProcessError"
    /\ exc.stderr # <<>>
    /\ md_file \in DOMAIN fs
    /\ ~result.success

(***************************************************************************)
(* C17: every failed outcome returned after the .md file was written and   *)
(* the renderer was called has the path of that file as its markdown path. *)
(* The code does not satisfy it: the last handler (lines 314-317) builds   *)
(* the outcome without the markdown path.                                  *)
(***************************************************************************)
C17_MarkdownPathOnEveryRenderFailure ==
    (/\ pc = "returned"
     /\ ~result.success
     /\ runs # <<>>
     /\ md_file \in DOMAIN fs) => result.markdown_path = md_file

(***************************************************************************)
(* C18: no exception leaves generate_presentation; once it has returned,   *)
(* the outcome is a success with both paths or a failure with a message,   *)
(* and a failure that is neither an invalid format nor a non-zero exit of  *)
(* the renderer has a message that starts with "Unexpected error: ".       *)
(***************************************************************************)
C18_NeverPropagates ==
    /\ pc # "raised"
    /\ pc = "returned" =>
          /\ result.success <=> ReturnedCleanly
          /\ result.success =>
                result.output_path # None /\ result.markdown_path # None
          /\ ~result.success => result.error_message # None
          /\ exc.type \notin {"none", "CalledProcessError"} =>
                /\ ~result.success
                /\ StartsWith(result.error_message, <<"Unexpected error: ">>)
                /\ EndsWith(result.error_message, exc.msg)

C18_Witness ==
    /\ pc = "returned"
    /\ exc.type = "FileNotFoundError"
    /\ ~result.success

\* the shell metacharacters ; & | ` $ ( )
ShellMeta == {";", "&", "|", BT, "$", "(", ")"}

Occurs(c, s) == \E i \in 1..Len(s) : s[i] = c

\* C19 as stated: the command is an argument list given without the shell,
\* and every shell metacharacter of the filename is in both path arguments
C19_MetacharsVerbatim ==
    \A i \in 1..Len(runs) :
        /\ Len(runs[i].cmd) >= 4
        /\ ~runs[i].shell
        /\ \A c \in ShellMeta :
              Occurs(c, filename) =>
                  /\ Occurs(c, runs[i].cmd[2])
                  /\ Occurs(c, ArgAfter(runs[i].cmd, <<"--output">>))

(***************************************************************************)
(* C19, amended: the renderer is called with an argument list ("marp", the *)
(* .md path, the format flag, "--output", the output path) and without the *)
(* shell; the two paths hold the sanitized name as it is, so every shell   *)
(* metacharacter of the last component of the filename other than "|" is   *)
(* in both of them, while "|", a reserved character, is in neither.        *)
(***************************************************************************)
C19_ArgumentListNoShell ==
    \A i \in 1..Len(runs) :
        LET cmd == runs[i].cmd
            out == ArgAfter(cmd, <<"--output">>)
        IN  /\ ~runs[i].shell
            /\ cmd[1] = <<"marp">>
            /\ cmd[2] = OutputDir \o <<"/">> \o sanitized[1] \o <<".", "md">>
            /\ cmd[4] = <<"--output">>
            /\ out = OutputDir \o <<"/">> \o sanitized[1] \o <<".">>
                         \o output_format
            /\ \A c \in ShellMeta \ {"|"} :
                  Occurs(c, Basename(filename)) =>
                      Occurs(c, cmd[2]) /\ Occurs(c, out)
            /\ ~Occurs("|", cmd[2])
            /\ ~Occurs("|", out)

C19_Witness ==
    /\ runs # <<>>
    /\ filename = <<";", "|">>
    /\ Occurs(";", runs[1].cmd[2])

\* the place of a label in one call of generate_presentation
Rank(label) ==
    CASE label = "sanitize" -> 1
      [] label = "validate" -> 2
      [] label = "process" -> 3
      [] label = "start" -> 4
      [] label = "directives" -> 5
      [] label = "structured" -> 6
      [] label = "done" -> 7
      [] label = "written" -> 8
      [] label = "except" -> 9
      [] label = "returned" -> 10
      [] OTHER -> 0

(***************************************************************************)
(* C20: every step of one generate_presentation call moves forward in the  *)
(* order sanitize, validate, Injector, Segmenter, Styler, write, render,   *)
(* outcome, so no step runs twice and none runs again after a failure; the *)
(* renderer is called once, when the .md file holds the text the Styler    *)
(* returned for the Segmenter's result on the Injector's result.           *)
(***************************************************************************)
C20_StepsInOrder ==
    [][/\ Rank(pc') > Rank(pc)
       /\ Rank(pc) > 0
       /\ pc = "except" => pc' = "returned"
       /\ runs' # runs =>
             /\ runs = <<>>
             /\ Len(runs') = 1
             /\ pc = "written"
             /\ md_file \in DOMAIN fs
             /\ fs[md_file] = marp_content
             /\ marp_content =
                    _apply_styling(_structure_slides(
                        _add_marp_directives(theme_dir, content, config)))
       /\ fs' # fs /\ runs' = runs => pc = "done"]_vars

C20_Witness ==
    /\ pc = "returned"
    /\ result.success
    /\ Len(runs) = 1
    /\ fs[md_file] = marp_content

(***************************************************************************)
(* check_marp_installation (lines 319-332) and the command line (cli.py)   *)
(***************************************************************************)

\* what `marp --version` can do: run and exit 0, not be on the PATH, run and
\* exit non-zero, be on the PATH without the permission to execute it
MarpStates == {"installed", "missing", "failing", "denied"}

\* line 328
ProbeCommand == << <<"marp">>, <<"--version">> >>

\* what subprocess.run raises for the probe (check=True), NoExc if nothing
ProbeRaised(m) ==
    IF m = "installed" THEN NoExc
    ELSE IF m = "missing" THEN FileNotFoundErrorMarp
    ELSE IF m = "failing" THEN CalledProcessError(<<>>, <<>>)
    ELSE PermissionErrorMarp

\* line 331: except (subprocess.CalledProcessError, FileNotFoundError)
CaughtByProbe(e) == e.type \in {"CalledProcessError", "FileNotFoundError"}

\* lines 326-332, as a part of the step that calls it
check_marp_installation ==
    /\ runs' = Append(runs, [cmd |-> ProbeCommand, shell |-> Shell])
    /\ IF ProbeRaised(marp) = NoExc
       THEN installed' = "yes" /\ UNCHANGED exc
       ELSE IF CaughtByProbe(ProbeRaised(marp))
       THEN installed' = "no" /\ UNCHANGED exc
       ELSE exc' = ProbeRaised(marp) /\ UNCHANGED installed

\* the values of the command line in the model
CliOutputs == { <<"presentation">>, <<"a", "/", "b">> }

CliContents == { <<>>, <<"#", " ", "a", NL, "a">> }

InitCli ==
    /\ pc = "cli"
    /\ \E st \in PipelineSettings : theme_dir = st.dir /\ config = st.cfg
    /\ content = <<>>
    /\ marp_content = <<>>
    /\ filename \in CliOutputs
    /\ sanitized = <<>>
    /\ output_format \in ValidFormats
    /\ md_file = None
    /\ fs = <<>>
    /\ runs = <<>>
    /\ exc = NoExc
    /\ result = NoResult
    /\ check_marp \in BOOLEAN
    /\ list_themes \in BOOLEAN
    /\ marp \in MarpStates
    /\ input_readable \in BOOLEAN
    /\ installed = "unknown"
    /\ exit_code = 0
    /\ calls = 0

\* cli.py lines 93-100; an exception nothing catches ends the process with 1
CliCheckMarp ==
    /\ pc = "cli"
    /\ check_marp
    /\ check_marp_installation
    /\ IF exc' # NoExc
       THEN pc' = "raised" /\ exit_code' = 1
       ELSE pc' = "exited" /\ exit_code' = 0
    /\ UNCHANGED <<theme_dir, content, config, marp_content, filename, sanitized>>
    /\ UNCHANGED <<output_format, md_file, fs, result>>
    /\ UNCHANGED <<check_marp, list_themes, marp, input_readable, calls>>

\* cli.py lines 102-117
CliListThemes ==
    /\ pc = "cli"
    /\ ~check_marp
    /\ list_themes
    /\ pc' = "exited"
    /\ exit_code' = 0
    /\ UNCHANGED <<theme_dir, content, config, marp_content, filename, sanitized>>
    /\ UNCHANGED genVars
    /\ UNCHANGED <<check_marp, list_themes, marp, input_readable, installed, calls>>

\* cli.py lines 119-124
CliRequireMarp ==
    /\ pc = "cli"
    /\ ~check_marp
    /\ ~list_themes
    /\ check_marp_installation
    /\ IF exc' # NoExc
       THEN pc' = "raised" /\ exit_code' = 1
       ELSE IF installed' = "no"
       THEN pc' = "exited" /\ exit_code' = 1
       ELSE pc' = "read" /\ UNCHANGED exit_code
    /\ UNCHANGED <<theme_dir, content, config, marp_content, filename, sanitized>>
    /\ UNCHANGED <<output_format, md_file, fs, result>>
    /\ UNCHANGED <<check_marp, list_themes, marp, input_readable, calls>>

\* cli.py lines 126-163: read the file, then enter generate_presentation
CliReadInput ==
    /\ pc = "read"
    /\ IF input_readable
       THEN /\ content' \in CliContents
            /\ pc' = "sanitize"
            /\ UNCHANGED exit_code
       ELSE /\ pc' = "exited"
            /\ exit_code' = 1
            /\ UNCHANGED content
    /\ UNCHANGED <<theme_dir, config, marp_content, filename, sanitized>>
    /\ UNCHANGED genVars
    /\ UNCHANGED <<check_marp, list_themes, marp, input_readable, installed, calls>>

\* cli.py lines 165-199
CliShowResult ==
    /\ pc = "returned"
    /\ pc' = "exited"
    /\ exit_code' = IF result.success THEN 0 ELSE 1
    /\ UNCHANGED <<theme_dir, content, config, marp_content, filename, sanitized>>
    /\ UNCHANGED genVars
    /\ UNCHANGED <<check_marp, list_themes, marp, input_readable, installed, calls>>

NextCli ==
    \/ CliCheckMarp
    \/ CliListThemes
    \/ CliRequireMarp
    \/ CliReadInput
    \/ NextGenerate
    \/ CliShowResult

SpecCli == InitCli /\ [][NextCli]_vars

\* the command line has ended
CliEnded == pc \in {"exited", "raised"}

\* the read of the input file was reached and failed
ReadFailed ==
    /\ ~check_marp
    /\ ~list_themes
    /\ installed = "yes"
    /\ ~input_readable

\* generate_presentation was called and returned a failure
ConversionFailed == result # NoResult /\ ~result.success

(***************************************************************************)
(* C21: whatever the flags, the command line ends with a non-zero exit     *)
(* code when the marp executable is unavailable, when the read of the      *)
(* input file fails or when the conversion fails, and with zero otherwise. *)
(* The code does not satisfy it: with --check-marp (and with               *)
(* --list-themes) it returns normally although marp is unavailable.        *)
(***************************************************************************)
C21_ExitCode ==
    CliEnded =>
        (exit_code # 0 <=>
            \/ marp # "installed"
            \/ ReadFailed
            \/ ConversionFailed)

(***************************************************************************)
(* C22: check_marp_installation runs ["marp", "--version"] without the     *)
(* shell, raises nothing, and returns true exactly when the probe ran and  *)
(* exited with zero.  The code does not satisfy it: it catches             *)
(* CalledProcessError and FileNotFoundError only, so the PermissionError   *)
(* of a marp that may not be executed leaves the method.                   *)
(***************************************************************************)
C22_ProbeReportsAndNeverRaises ==
    (runs # <<>> /\ runs[1].cmd = <<<<"marp">>, <<"--version">>>>) =>
        /\ ~runs[1].shell
        /\ installed \in {"yes", "no"}
        /\ installed = "yes" <=> marp = "installed"
        /\ pc # "raised"

\* the text process_claude_content hands to _apply_styling
StylerInput == _structure_slides(_add_marp_directives(theme_dir, content, config))

\* what process_claude_content returns for the arguments of the call
StylerInputStyled == _apply_styling(StylerInput)

\* a line that holds "---" without being a break marker line
HasEmbeddedBreak(line) == Contains(line, BREAK) /\ ~IsBreakLine(line)

(***************************************************************************)
(* C23: _apply_styling makes slide boundaries only of the break marker     *)
(* lines of its input: its output has no more break marker lines than its  *)
(* input, and an input line that holds "---" inside it is a line of the    *)
(* output.  The code does not satisfy it: content.split("---") (line 188)  *)
(* splits at every "---", wherever it stands.                              *)
(***************************************************************************)
C23_SplitAtMarkerLinesOnly ==
    pc = "done" =>
        /\ BreakLineCount(marp_content) <= BreakLineCount(StylerInput)
        /\ \A i \in 1..Len(LinesOf(StylerInput)) :
              HasEmbeddedBreak(LinesOf(StylerInput)[i]) =>
                  \E j \in 1..Len(LinesOf(marp_content)) :
                      Strip(LinesOf(marp_content)[j])
                          = Strip(LinesOf(StylerInput)[i])

\* the flag that asks the renderer for a format
FlagOf(fmt) ==
    CASE fmt = <<"pptx">> -> <<"--pptx">>
      [] fmt = <<"pdf">> -> <<"--pdf">>
      [] fmt = <<"html">> -> <<"--html">>

(***************************************************************************)
(* C24: for pptx, pdf and html the renderer is given exactly "marp", the   *)
(* .md path, the flag of the format, "--output" and the path               *)
(* <output dir>/<sanitized name>.<format>, followed by "--theme-set" and   *)
(* the theme directory exactly when that directory holds a .css file.      *)
(***************************************************************************)
C24_ArgumentVector ==
    \A i \in 1..Len(runs) :
        output_format \in {<<"pptx">>, <<"pdf">>, <<"html">>} =>
            runs[i].cmd =
                << <<"marp">>,
                   <<"presentations", "/">> \o sanitized[1] \o <<".", "md">>,
                   FlagOf(output_format),
                   <<"--output">>,
                   <<"presentations", "/">> \o sanitized[1] \o <<".">>
                       \o output_format >>
                \o (IF theme_dir # {}
                    THEN << <<"--theme-set">>, <<"themes">> >>
                    ELSE <<>>)

C24_Witness ==
    /\ Len(runs) = 1
    /\ output_format = <<"pdf">>
    /\ theme_dir # {}
    /\ Len(runs[1].cmd) = 7
    /\ runs[1].cmd[3] = <<"--pdf">>

(***************************************************************************)
(* C25: in the outcome generate_presentation returns, success, a present   *)
(* output path and an absent error message go together; a success has a    *)
(* markdown path; and an output path is present only when the renderer was *)
(* called in that call and nothing was raised.                             *)
(***************************************************************************)
C25_OutcomeConsistent ==
    pc = "returned" =>
        /\ result.success <=> result.output_path # None
        /\ result.success <=> result.error_message = None
        /\ result.success => result.markdown_path # None
        /\ result.output_path # None =>
              /\ Len(runs) = 1
              /\ exc = NoExc
              /\ result.output_path \in DOMAIN fs

C25_Witness ==
    /\ pc = "returned"
    /\ ~result.success
    /\ result.error_message # None
    /\ result.markdown_path # None
    /\ Len(runs) = 1

(***************************************************************************)
(* Successive generate_presentation calls on one converter                 *)
(***************************************************************************)

\* the arguments of the calls: two filenames with one sanitized name, a third
CallNames == { <<"a">>, <<"/", "a">>, <<"b">> }

CallFormats == { <<"pptx">>, <<"docx">> }

InitCalls ==
    /\ pc = "sanitize"
    /\ theme_dir = {}
    /\ config = DefaultConfig
    /\ content \in GenContents
    /\ marp_content = <<>>
    /\ filename \in CallNames
    /\ sanitized = <<>>
    /\ output_format \in CallFormats
    /\ md_file = None
    /\ fs = <<>>
    /\ runs = <<>>
    /\ exc = NoExc
    /\ result = NoResult
    /\ OuterIdle

\* the caller calls generate_presentation again (lines 240-259): the locals
\* are new, the converter and the output directory are the same
NewCall ==
    /\ pc = "returned"
    /\ calls + 1 < MaxGenCalls
    /\ calls' = calls + 1
    /\ pc' = "sanitize"
    /\ content' \in GenContents
    /\ filename' \in CallNames
    /\ output_format' \in CallFormats
    /\ marp_content' = <<>>
    /\ sanitized' = <<>>
    /\ md_file' = None
    /\ runs' = <<>>
    /\ exc' = NoExc
    /\ result' = NoResult
    /\ UNCHANGED <<theme_dir, config, fs>>
    /\ UNCHANGED <<check_marp, list_themes, marp, input_readable, installed, exit_code>>

NextCalls == NextGenerate \/ NewCall

SpecCalls == InitCalls /\ [][NextCalls]_vars

\* the call under execution is one that generate_presentation rejects
RejectedCall ==
    output_format \notin {<<"pptx">>, <<"pdf">>, <<"html">>} \/ content = None

\* every file other than `path` is after the step what it was before
OthersUnchanged(path) ==
    /\ DOMAIN fs \subseteq DOMAIN fs'
    /\ \A p \in DOMAIN fs' : p # path => p \in DOMAIN fs /\ fs'[p] = fs[p]

\* C26 as stated: the write step of every call that passed validation leaves
\* the call's markup in <name>.md, a rejected call changes no file, and the
\* markup is that of the call's own arguments
C26_LastWriterWins ==
    [][/\ pc = "done" =>
             /\ MdFile(sanitized[1]) \in DOMAIN fs'
             /\ fs'[MdFile(sanitized[1])] = marp_content
             /\ marp_content = StylerInputStyled
             /\ OthersUnchanged(MdFile(sanitized[1]))
       /\ pc \notin {"done", "written"} => fs' = fs
       /\ pc = "written" => OthersUnchanged(OutputFile(sanitized[1], output_format))
       /\ RejectedCall => fs' = fs]_vars

(***************************************************************************)
(* C26, amended: over successive calls, <name>.md is changed only by the   *)
(* write step of a call with that sanitized name that passed validation:   *)
(* a write that completes leaves the call's markup in it, which is the     *)
(* pipeline's result for the call's own arguments; a write that is refused *)
(* leaves the file as the earlier calls left it, and a write that is       *)
(* interrupted leaves it empty.  No other file is changed by that step,    *)
(* the render step changes the output file only, and a call rejected for   *)
(* its format or for content None changes no file.                         *)
(***************************************************************************)
C26_LastCompletedWriteWins ==
    [][/\ pc = "done" =>
             /\ pc' = "written" =>
                   /\ MdFile(sanitized[1]) \in DOMAIN fs'
                   /\ fs'[MdFile(sanitized[1])] = marp_content
             /\ pc' = "except" =>
                   \/ fs' = fs
                   \/ /\ MdFile(sanitized[1]) \in DOMAIN fs'
                      /\ fs'[MdFile(sanitized[1])] = <<>>
             /\ marp_content = StylerInputStyled
             /\ OthersUnchanged(MdFile(sanitized[1]))
       /\ pc \notin {"done", "written"} => fs' = fs
       /\ pc = "written" => OthersUnchanged(OutputFile(sanitized[1], output_format))
       /\ RejectedCall => fs' = fs]_vars

C26_Witness ==
    /\ calls = 1
    /\ pc = "written"
    /\ filename = <<"/", "a">>
    /\ content = <<"#", " ", "a", NL, "a">>
    /\ DOMAIN fs = { <<"presentations", "/", "a", ".", "md">>,
                     <<"presentations", "/", "a", ".", "pptx">> }
    /\ fs[<<"presentations", "/", "a", ".", "md">>] = marp_content

(***************************************************************************)
(* process_claude_content on documents with fenced code blocks             *)
(***************************************************************************)

FencedLines == { <<>>, <<"a">>, <<"#", " ", "a">>, <<BT, BT, BT>> }

FencedDocuments == TextsOf(FencedLines, MaxFenceLines)

InitFenced ==
    /\ pc = "start"
    /\ \E st \in PipelineSettings : theme_dir = st.dir /\ config = st.cfg
    /\ content \in FencedDocuments
    /\ marp_content = <<>>
    /\ filename = <<>>
    /\ sanitized = <<>>
    /\ GenIdle
    /\ OuterIdle

SpecFenced == InitFenced /\ [][Next]_vars

\* a line that opens or closes a fenced code block
IsFenceLine(line) == StartsWith(Strip(line), <<BT, BT, BT>>)

\* line i of `lines` is inside a fenced code block
InsideFence(lines, i) ==
    Cardinality({j \in 1..(i - 1) : IsFenceLine(lines[j])}) % 2 = 1

(***************************************************************************)
(* C27: in the text process_claude_content returns no break marker line    *)
(* is inside a fenced code block, so a fenced block of the document is in  *)
(* one slide, also when a line of it starts with "# " or "## ".  The code  *)
(* does not satisfy it: _structure_slides puts a break marker in front of  *)
(* every such line without looking at code fences.                         *)
(***************************************************************************)
C27_NoBreakInsideFence ==
    pc = "done" =>
        \A i \in 1..Len(LinesOf(marp_content)) :
            IsBreakLine(LinesOf(marp_content)[i]) =>
                ~InsideFence(LinesOf(marp_content), i)

====
